---- MODULE Spec2Model ----
(***************************************************************************)
(* Model of src/src/anfa.rs: the ANFA under construction (transition       *)
(* table delta, optional q0 and f), the primitive builders expr_0, expr_1, *)
(* expr_a, the combinators concatenate, star, union, and in_and_fin.       *)
(*                                                                         *)
(* Rust values are kept in their own shape:                                *)
(*   Option<T>       None is << >>, Some(x) is << x >>                     *)
(*   a slot          Option<(Option<char>, QId)>                           *)
(*   a row           [slot; 2], the pair << slot0, slot1 >>                *)
(*   delta           Vec of rows; state id q is element q + 1 of the       *)
(*                   sequence (Rust indexes from 0)                        *)
(*   Result<T, E>    a record with tag "Ok" or "Err"; an index outside the *)
(*                   Vec aborts the call, tag "Panic"                      *)
(***************************************************************************)
EXTENDS Integers, Sequences, FiniteSets, TLC

\* Largest transition table the driver builds.
MaxStates == 5

\* Most handles the driver obtains from one ANFA.
MaxRefs == 4

\* Largest state id of a handle that another automaton handed out.
MaxForeign == 1

\* Longest input the epsilon-closure walk is run on.
MaxWord == 3

\* Most builder and combinator calls in the construction of one expression.
MaxRegex == 5

\* The characters the driver passes to expr_a.
Alphabet == {"a"}

\* The characters the unit tests build their literals from.
Literals == {"a", "b", "c"}

None == << >>

Some(x) == << x >>

Ok(v) == [tag |-> "Ok", val |-> v]

Err(msg) == [tag |-> "Err", val |-> msg]

\* delta[q] with q >= delta.len(): the bounds check of Vec indexing aborts.
Panic == [tag |-> "Panic", val |-> "index out of bounds"]

AutomataRef(q0, f) == [q0 |-> q0, f |-> f]

\* [None, None]
NoTransitions == << None, None >>

\* Some((None, q)): an epsilon transition to q.
Eps(q) == Some(<< None, q >>)

\* Some((Some(c), q)): a transition to q along c.
Sym(c, q) == Some(<< Some(c), q >>)

InTable(m, q) == q < Len(m.delta)

Row(m, q) == m.delta[q + 1]

SetRow(delta, q, row) == [delta EXCEPT ![q + 1] = row]

Push(delta, row) == Append(delta, row)

----------------------------------------------------------------------------
(* The operations, each from a machine to the machine after the call and   *)
(* the value returned.                                                     *)

\* new with q0 already set.
new_with_entry == [delta |-> << >>, q0 |-> Some(0), f |-> None]

new == [delta |-> << >>, q0 |-> None, f |-> None]

\* in_and_fin taking q0 from the handle's f and f from its q0.
in_and_fin_swapped(m, a) ==
    [m |-> [m EXCEPT !.q0 = Some(a.f), !.f = Some(a.q0)],
     r |-> Ok(<< >>)]

in_and_fin(m, a) ==
    [m |-> [m EXCEPT !.q0 = Some(a.q0), !.f = Some(a.f)],
     r |-> Ok(<< >>)]

\* expr_0 with an epsilon transition from q0 to f.
expr_0_linked(m) ==
    LET q0 == Len(m.delta)
        f  == q0 + 1
    IN  [m |-> [m EXCEPT !.delta = Push(Push(@, << Eps(f), None >>), NoTransitions)],
         r |-> Ok(AutomataRef(q0, f))]

expr_0(m) ==
    LET q0 == Len(m.delta)
        f  == q0 + 1
    IN  [m |-> [m EXCEPT !.delta = Push(Push(@, NoTransitions), NoTransitions)],
         r |-> Ok(AutomataRef(q0, f))]

\* expr_1 pushing a separate final state.
expr_1_two_states(m) ==
    LET q0 == Len(m.delta)
        f  == q0 + 1
    IN  [m |-> [m EXCEPT !.delta = Push(Push(@, NoTransitions), NoTransitions)],
         r |-> Ok(AutomataRef(q0, f))]

\* expr_1 recording its state as the automaton's q0.
expr_1_sets_entry(m) ==
    LET q0 == Len(m.delta)
    IN  [m |-> [m EXCEPT !.delta = Push(@, NoTransitions), !.q0 = Some(q0)],
         r |-> Ok(AutomataRef(q0, q0))]

expr_1(m) ==
    LET q0 == Len(m.delta)
    IN  [m |-> [m EXCEPT !.delta = Push(@, NoTransitions)],
         r |-> Ok(AutomataRef(q0, q0))]

\* expr_a with the transition along c leading back to q0.
expr_a_targets_entry(m, c) ==
    LET q0 == Len(m.delta)
        f  == q0 + 1
    IN  [m |-> [m EXCEPT !.delta =
                    Push(Push(@, << Sym(c, q0), None >>), NoTransitions)],
         r |-> Ok(AutomataRef(q0, f))]

expr_a(m, c) ==
    LET q0 == Len(m.delta)
        f  == q0 + 1
    IN  [m |-> [m EXCEPT !.delta =
                    Push(Push(@, << Sym(c, f), None >>), NoTransitions)],
         r |-> Ok(AutomataRef(q0, f))]

\* concatenate looking at the left operand's accept state only.
concatenate_checks_left_only(m, a, b) ==
    IF ~InTable(m, a.f) \/ ~InTable(m, b.f)
    THEN [m |-> m, r |-> Panic]
    ELSE IF Row(m, a.f) # NoTransitions
    THEN [m |-> m,
          r |-> Err("Final states of machine_ref_a and machine_ref_b can NOT have transitions")]
    ELSE [m |-> [m EXCEPT !.delta = SetRow(@, a.f, << Eps(b.q0), None >>)],
          r |-> Ok(AutomataRef(a.q0, b.f))]

\* concatenate putting the epsilon transition in slot 1.
concatenate_into_slot_1(m, a, b) ==
    IF ~InTable(m, a.f) \/ ~InTable(m, b.f)
    THEN [m |-> m, r |-> Panic]
    ELSE IF << Row(m, a.f), Row(m, b.f) >> # << NoTransitions, NoTransitions >>
    THEN [m |-> m,
          r |-> Err("Final states of machine_ref_a and machine_ref_b can NOT have transitions")]
    ELSE [m |-> [m EXCEPT !.delta = SetRow(@, a.f, << None, Eps(b.q0) >>)],
          r |-> Ok(AutomataRef(a.q0, b.f))]

\* concatenate rewiring machine_ref_b.f in place of machine_ref_a.f.
concatenate_rewires_right(m, a, b) ==
    IF ~InTable(m, a.f) \/ ~InTable(m, b.f)
    THEN [m |-> m, r |-> Panic]
    ELSE IF << Row(m, a.f), Row(m, b.f) >> # << NoTransitions, NoTransitions >>
    THEN [m |-> m,
          r |-> Err("Final states of machine_ref_a and machine_ref_b can NOT have transitions")]
    ELSE [m |-> [m EXCEPT !.delta = SetRow(@, b.f, << Eps(b.q0), None >>)],
          r |-> Ok(AutomataRef(a.q0, b.f))]

\* concatenate leading to machine_ref_b.f in place of machine_ref_b.q0.
concatenate_links_accepts(m, a, b) ==
    IF ~InTable(m, a.f) \/ ~InTable(m, b.f)
    THEN [m |-> m, r |-> Panic]
    ELSE IF << Row(m, a.f), Row(m, b.f) >> # << NoTransitions, NoTransitions >>
    THEN [m |-> m,
          r |-> Err("Final states of machine_ref_a and machine_ref_b can NOT have transitions")]
    ELSE [m |-> [m EXCEPT !.delta = SetRow(@, a.f, << Eps(b.f), None >>)],
          r |-> Ok(AutomataRef(a.q0, b.f))]

\* concatenate pushing a state of its own.
concatenate_pushes_state(m, a, b) ==
    IF ~InTable(m, a.f) \/ ~InTable(m, b.f)
    THEN [m |-> m, r |-> Panic]
    ELSE IF << Row(m, a.f), Row(m, b.f) >> # << NoTransitions, NoTransitions >>
    THEN [m |-> m,
          r |-> Err("Final states of machine_ref_a and machine_ref_b can NOT have transitions")]
    ELSE [m |-> [m EXCEPT !.delta =
                    Push(SetRow(@, a.f, << Eps(b.q0), None >>), NoTransitions)],
          r |-> Ok(AutomataRef(a.q0, b.f))]

\* concatenate returning machine_ref_a.f as the final state.
concatenate_returns_left_accept(m, a, b) ==
    IF ~InTable(m, a.f) \/ ~InTable(m, b.f)
    THEN [m |-> m, r |-> Panic]
    ELSE IF << Row(m, a.f), Row(m, b.f) >> # << NoTransitions, NoTransitions >>
    THEN [m |-> m,
          r |-> Err("Final states of machine_ref_a and machine_ref_b can NOT have transitions")]
    ELSE [m |-> [m EXCEPT !.delta = SetRow(@, a.f, << Eps(b.q0), None >>)],
          r |-> Ok(AutomataRef(a.q0, a.f))]

concatenate(m, a, b) ==
    IF ~InTable(m, a.f) \/ ~InTable(m, b.f)
    THEN [m |-> m, r |-> Panic]
    ELSE IF << Row(m, a.f), Row(m, b.f) >> # << NoTransitions, NoTransitions >>
    THEN [m |-> m,
          r |-> Err("Final states of machine_ref_a and machine_ref_b can NOT have transitions")]
    ELSE [m |-> [m EXCEPT !.delta = SetRow(@, a.f, << Eps(b.q0), None >>)],
          r |-> Ok(AutomataRef(a.q0, b.f))]

\* star entering the operand without passing the branch state.
star_skips_branch(m, a) ==
    IF ~InTable(m, a.f)
    THEN [m |-> m, r |-> Panic]
    ELSE IF Row(m, a.f) # NoTransitions
    THEN [m |-> m,
          r |-> Err("Final state of machine_ref_a can NOT have transitions")]
    ELSE LET q0     == Len(m.delta)
             q_next == q0 + 1
             f      == q_next + 1
             d1     == Push(m.delta, << Eps(a.q0), None >>)
             d2     == Push(d1, << Eps(a.q0), Eps(f) >>)
             d3     == Push(d2, NoTransitions)
             d4     == SetRow(d3, a.f, << Eps(q_next), None >>)
         IN  [m |-> [m EXCEPT !.delta = d4],
              r |-> Ok(AutomataRef(q0, f))]

\* star with the exit of the branch state one past the new final state.
star_exits_past_table(m, a) ==
    IF ~InTable(m, a.f)
    THEN [m |-> m, r |-> Panic]
    ELSE IF Row(m, a.f) # NoTransitions
    THEN [m |-> m,
          r |-> Err("Final state of machine_ref_a can NOT have transitions")]
    ELSE LET q0     == Len(m.delta)
             q_next == q0 + 1
             f      == q_next + 1
             d1     == Push(m.delta, << Eps(q_next), None >>)
             d2     == Push(d1, << Eps(a.q0), Eps(f + 1) >>)
             d3     == Push(d2, NoTransitions)
             d4     == SetRow(d3, a.f, << Eps(q_next), None >>)
         IN  [m |-> [m EXCEPT !.delta = d4],
              r |-> Ok(AutomataRef(q0, f))]

\* star with the two slots of the branch state exchanged.
star_swapped_branch(m, a) ==
    IF ~InTable(m, a.f)
    THEN [m |-> m, r |-> Panic]
    ELSE IF Row(m, a.f) # NoTransitions
    THEN [m |-> m,
          r |-> Err("Final state of machine_ref_a can NOT have transitions")]
    ELSE LET q0     == Len(m.delta)
             q_next == q0 + 1
             f      == q_next + 1
             d1     == Push(m.delta, << Eps(q_next), None >>)
             d2     == Push(d1, << Eps(f), Eps(a.q0) >>)
             d3     == Push(d2, NoTransitions)
             d4     == SetRow(d3, a.f, << Eps(q_next), None >>)
         IN  [m |-> [m EXCEPT !.delta = d4],
              r |-> Ok(AutomataRef(q0, f))]

\* star leaving machine_ref_a.f as it found it.
star_leaves_operand(m, a) ==
    IF ~InTable(m, a.f)
    THEN [m |-> m, r |-> Panic]
    ELSE IF Row(m, a.f) # NoTransitions
    THEN [m |-> m,
          r |-> Err("Final state of machine_ref_a can NOT have transitions")]
    ELSE LET q0     == Len(m.delta)
             q_next == q0 + 1
             f      == q_next + 1
             d1     == Push(m.delta, << Eps(q_next), None >>)
             d2     == Push(d1, << Eps(a.q0), Eps(f) >>)
             d3     == Push(d2, NoTransitions)
             d4     == d3
         IN  [m |-> [m EXCEPT !.delta = d4],
              r |-> Ok(AutomataRef(q0, f))]

\* star rewiring machine_ref_a.q0 in place of machine_ref_a.f.
star_rewires_entry(m, a) ==
    IF ~InTable(m, a.f)
    THEN [m |-> m, r |-> Panic]
    ELSE IF Row(m, a.f) # NoTransitions
    THEN [m |-> m,
          r |-> Err("Final state of machine_ref_a can NOT have transitions")]
    ELSE LET q0     == Len(m.delta)
             q_next == q0 + 1
             f      == q_next + 1
             d1     == Push(m.delta, << Eps(q_next), None >>)
             d2     == Push(d1, << Eps(a.q0), Eps(f) >>)
             d3     == Push(d2, NoTransitions)
             d4     == SetRow(d3, a.q0, << Eps(q_next), None >>)
         IN  [m |-> [m EXCEPT !.delta = d4],
              r |-> Ok(AutomataRef(q0, f))]

star(m, a) ==
    IF ~InTable(m, a.f)
    THEN [m |-> m, r |-> Panic]
    ELSE IF Row(m, a.f) # NoTransitions
    THEN [m |-> m,
          r |-> Err("Final state of machine_ref_a can NOT have transitions")]
    ELSE LET q0     == Len(m.delta)
             q_next == q0 + 1
             f      == q_next + 1
             d1     == Push(m.delta, << Eps(q_next), None >>)
             d2     == Push(d1, << Eps(a.q0), Eps(f) >>)
             d3     == Push(d2, NoTransitions)
             d4     == SetRow(d3, a.f, << Eps(q_next), None >>)
         IN  [m |-> [m EXCEPT !.delta = d4],
              r |-> Ok(AutomataRef(q0, f))]

\* union with the right operand in slot 0 of the branch state.
union_swapped_operands(m, a, b) ==
    IF ~InTable(m, a.f) \/ ~InTable(m, b.f)
    THEN [m |-> m, r |-> Panic]
    ELSE IF << Row(m, a.f), Row(m, b.f) >> # << NoTransitions, NoTransitions >>
    THEN [m |-> m,
          r |-> Err("Final states of machine_ref_a and machine_ref_b can NOT have transitions")]
    ELSE LET q0 == Len(m.delta)
             d1 == Push(m.delta, << Eps(b.q0), Eps(a.q0) >>)
             f  == q0 + 1
             d2 == Push(d1, NoTransitions)
             d3 == SetRow(d2, a.f, << Eps(f), None >>)
             d4 == SetRow(d3, b.f, << Eps(f), None >>)
         IN  [m |-> [m EXCEPT !.delta = d4],
              r |-> Ok(AutomataRef(q0, f))]

\* union leaving machine_ref_b.f without its transition to the new final state.
union_rewires_left_only(m, a, b) ==
    IF ~InTable(m, a.f) \/ ~InTable(m, b.f)
    THEN [m |-> m, r |-> Panic]
    ELSE IF << Row(m, a.f), Row(m, b.f) >> # << NoTransitions, NoTransitions >>
    THEN [m |-> m,
          r |-> Err("Final states of machine_ref_a and machine_ref_b can NOT have transitions")]
    ELSE LET q0 == Len(m.delta)
             d1 == Push(m.delta, << Eps(a.q0), Eps(b.q0) >>)
             f  == q0 + 1
             d2 == Push(d1, NoTransitions)
             d3 == SetRow(d2, a.f, << Eps(f), None >>)
             d4 == d3
         IN  [m |-> [m EXCEPT !.delta = d4],
              r |-> Ok(AutomataRef(q0, f))]

\* union returning the left operand's accept state as the final state.
union_returns_operand_accept(m, a, b) ==
    IF ~InTable(m, a.f) \/ ~InTable(m, b.f)
    THEN [m |-> m, r |-> Panic]
    ELSE IF << Row(m, a.f), Row(m, b.f) >> # << NoTransitions, NoTransitions >>
    THEN [m |-> m,
          r |-> Err("Final states of machine_ref_a and machine_ref_b can NOT have transitions")]
    ELSE LET q0 == Len(m.delta)
             d1 == Push(m.delta, << Eps(a.q0), Eps(b.q0) >>)
             f  == q0 + 1
             d2 == Push(d1, NoTransitions)
             d3 == SetRow(d2, a.f, << Eps(f), None >>)
             d4 == SetRow(d3, b.f, << Eps(f), None >>)
         IN  [m |-> [m EXCEPT !.delta = d4],
              r |-> Ok(AutomataRef(q0, a.f))]

\* union looking at the left operand's accept state only.
union_checks_left_only(m, a, b) ==
    IF ~InTable(m, a.f) \/ ~InTable(m, b.f)
    THEN [m |-> m, r |-> Panic]
    ELSE IF Row(m, a.f) # NoTransitions
    THEN [m |-> m,
          r |-> Err("Final states of machine_ref_a and machine_ref_b can NOT have transitions")]
    ELSE LET q0 == Len(m.delta)
             d1 == Push(m.delta, << Eps(a.q0), Eps(b.q0) >>)
             f  == q0 + 1
             d2 == Push(d1, NoTransitions)
             d3 == SetRow(d2, a.f, << Eps(f), None >>)
             d4 == SetRow(d3, b.f, << Eps(f), None >>)
         IN  [m |-> [m EXCEPT !.delta = d4],
              r |-> Ok(AutomataRef(q0, f))]

\* union returning the left operand's entry in place of the new branch state.
union_returns_left_entry(m, a, b) ==
    IF ~InTable(m, a.f) \/ ~InTable(m, b.f)
    THEN [m |-> m, r |-> Panic]
    ELSE IF << Row(m, a.f), Row(m, b.f) >> # << NoTransitions, NoTransitions >>
    THEN [m |-> m,
          r |-> Err("Final states of machine_ref_a and machine_ref_b can NOT have transitions")]
    ELSE LET q0 == Len(m.delta)
             d1 == Push(m.delta, << Eps(a.q0), Eps(b.q0) >>)
             f  == q0 + 1
             d2 == Push(d1, NoTransitions)
             d3 == SetRow(d2, a.f, << Eps(f), None >>)
             d4 == SetRow(d3, b.f, << Eps(f), None >>)
         IN  [m |-> [m EXCEPT !.delta = d4],
              r |-> Ok(AutomataRef(a.q0, f))]

union(m, a, b) ==
    IF ~InTable(m, a.f) \/ ~InTable(m, b.f)
    THEN [m |-> m, r |-> Panic]
    ELSE IF << Row(m, a.f), Row(m, b.f) >> # << NoTransitions, NoTransitions >>
    THEN [m |-> m,
          r |-> Err("Final states of machine_ref_a and machine_ref_b can NOT have transitions")]
    ELSE LET q0 == Len(m.delta)
             d1 == Push(m.delta, << Eps(a.q0), Eps(b.q0) >>)
             f  == q0 + 1
             d2 == Push(d1, NoTransitions)
             d3 == SetRow(d2, a.f, << Eps(f), None >>)
             d4 == SetRow(d3, b.f, << Eps(f), None >>)
         IN  [m |-> [m EXCEPT !.delta = d4],
              r |-> Ok(AutomataRef(q0, f))]

----------------------------------------------------------------------------
(* The driver: one ANFA, the handles its calls have returned, and the last *)
(* call with the value it returned.  The driver may pass any handle it     *)
(* holds to any call, any number of times: an AutomataRef is plain data    *)
(* and the calls borrow it.                                                *)

VARIABLES
    machine,    \* the ANFA
    refs,       \* the AutomataRef values returned so far, in the order returned
    consumed,   \* [h, as, by]: refs[h] was operand `as` of the successful
                \* combinator call that returned refs[by]
    finalized,  \* in_and_fin has been called
    call,       \* the last call: its name and the value it returned
    t           \* the unit test being run, when one is (see below)

vars == << machine, refs, consumed, finalized, call, t >>

Combinators == {"concatenate", "star", "union"}

Builders == {"expr_0", "expr_1", "expr_a"}

NoTest ==
    [test |-> "none", pc |-> 0, panicked |-> FALSE,
     chars |-> << >>, m |-> << >>, hs |-> << >>]

\* The call `op` was made on `machine` and came back as res; uses are the
\* operands it consumed if it succeeded.
Returned(op, res, uses) ==
    /\ call.r.tag # "Panic"
    /\ (res.r.tag = "Ok" /\ op # "in_and_fin") => Len(refs) < MaxRefs
    /\ machine' = res.m
    /\ call' = [op |-> op, r |-> res.r]
    /\ refs' = IF res.r.tag = "Ok" /\ op # "in_and_fin"
               THEN Append(refs, res.r.val)
               ELSE refs
    /\ consumed' = IF res.r.tag = "Ok"
                   THEN consumed \cup
                        {[h |-> u[1], as |-> u[2], by |-> Len(refs) + 1] : u \in uses}
                   ELSE consumed
    /\ finalized' = (finalized \/ op = "in_and_fin")
    /\ UNCHANGED t

Init ==
    /\ machine = new
    /\ refs = << >>
    /\ consumed = {}
    /\ finalized = FALSE
    /\ call = [op |-> "new", r |-> Ok(<< >>)]
    /\ t = NoTest

Do_expr_0 ==
    /\ Len(machine.delta) + 2 <= MaxStates
    /\ Returned("expr_0", expr_0(machine), {})

Do_expr_1 ==
    /\ Len(machine.delta) + 1 <= MaxStates
    /\ Returned("expr_1", expr_1(machine), {})

Call_expr_a(c) ==
    /\ Len(machine.delta) + 2 <= MaxStates
    /\ Returned("expr_a", expr_a(machine, c), {})

Do_expr_a == \E c \in Alphabet : Call_expr_a(c)

\* machine.concatenate(&a, &b)
Call_concatenate(a, b, uses) ==
    Returned("concatenate", concatenate(machine, a, b), uses)

\* machine.star(&a)
Call_star(a, uses) ==
    LET res == star(machine, a)
    IN  /\ res.r.tag = "Ok" => Len(machine.delta) + 3 <= MaxStates
        /\ Returned("star", res, uses)

\* machine.union(&a, &b)
Call_union(a, b, uses) ==
    LET res == union(machine, a, b)
    IN  /\ res.r.tag = "Ok" => Len(machine.delta) + 2 <= MaxStates
        /\ Returned("union", res, uses)

\* machine.in_and_fin(&a)
Call_in_and_fin(a) ==
    Returned("in_and_fin", in_and_fin(machine, a), {})

Held == 1..Len(refs)

Cat(i, j) ==
    Call_concatenate(refs[i], refs[j],
                     {<< i, "concatenate.a" >>, << j, "concatenate.b" >>})

Star(i) == Call_star(refs[i], {<< i, "star.a" >>})

Union(i, j) ==
    Call_union(refs[i], refs[j], {<< i, "union.a" >>, << j, "union.b" >>})

Do_concatenate == \E i, j \in Held : Cat(i, j)

Do_star == \E i \in Held : Star(i)

Do_union == \E i, j \in Held : Union(i, j)

Do_in_and_fin == \E i \in Held : Call_in_and_fin(refs[i])

Next ==
    \/ Do_expr_0
    \/ Do_expr_1
    \/ Do_expr_a
    \/ Do_concatenate
    \/ Do_star
    \/ Do_union
    \/ Do_in_and_fin

Spec == Init /\ [][Next]_vars

----------------------------------------------------------------------------
(* A driver that also passes handles it did not get from this ANFA, such   *)
(* as handles of another automaton: an AutomataRef is two public usize     *)
(* fields.  A call that aborts ends the run.                               *)

ForeignRefs == {AutomataRef(q0, f) : q0 \in 0..MaxForeign, f \in 0..MaxForeign}

Do_concatenate_foreign ==
    \E a, b \in ForeignRefs : Call_concatenate(a, b, {})

Do_star_foreign == \E a \in ForeignRefs : Call_star(a, {})

Do_union_foreign == \E a, b \in ForeignRefs : Call_union(a, b, {})

NextAny ==
    \/ Next
    \/ Do_concatenate_foreign
    \/ Do_star_foreign
    \/ Do_union_foreign

SpecAny == Init /\ [][NextAny]_vars

----------------------------------------------------------------------------
(* A driver that keeps the linear-use discipline: it passes to a           *)
(* combinator only handles this ANFA returned that were never an operand   *)
(* before, and never the same handle in both positions of one call.        *)

Fresh(i) == \A u \in consumed : u.h # i

Do_concatenate_linear ==
    \E i, j \in Held : i # j /\ Fresh(i) /\ Fresh(j) /\ Cat(i, j)

Do_star_linear == \E i \in Held : Fresh(i) /\ Star(i)

Do_union_linear ==
    \E i, j \in Held : i # j /\ Fresh(i) /\ Fresh(j) /\ Union(i, j)

NextLinear ==
    \/ Do_expr_0
    \/ Do_expr_1
    \/ Do_expr_a
    \/ Do_concatenate_linear
    \/ Do_star_linear
    \/ Do_union_linear
    \/ Do_in_and_fin

SpecLinear == Init /\ [][NextLinear]_vars

----------------------------------------------------------------------------
(* The unit tests of mod tests that build whole automata, run line by      *)
(* line; pc is the source line about to run.  The literals are drawn from  *)
(* Literals in place of the tests' fixed 'a', 'b', 'c'.                    *)

\* let mut machine = ANFA::new();
TestNew(line, next) ==
    /\ t.pc = line
    /\ ~t.panicked
    /\ t' = [t EXCEPT !.pc = next, !.m = Append(@, new)]
    /\ UNCHANGED << machine, refs, consumed, finalized, call >>

\* let r = machine.op(..).unwrap(); on machine t.m[k].  unwrap() of a value
\* that is not Ok aborts the test.
TestCall(line, next, k, res, keep) ==
    /\ t.pc = line
    /\ ~t.panicked
    /\ t' = IF res.r.tag = "Ok"
            THEN [t EXCEPT !.pc = next,
                           !.m[k] = res.m,
                           !.hs = IF keep THEN Append(@, res.r.val) ELSE @]
            ELSE [t EXCEPT !.panicked = TRUE]
    /\ UNCHANGED << machine, refs, consumed, finalized, call >>

\* test_concatenate, from "testing associativity" on.
test_concatenate ==
    /\ t.test = "test_concatenate"
    /\ \/ TestNew(596, 597)
       \/ TestCall(597, 598, 1, expr_a(t.m[1], t.chars[1]), TRUE)
       \/ TestCall(598, 599, 1, expr_a(t.m[1], t.chars[2]), TRUE)
       \/ TestCall(599, 600, 1, expr_a(t.m[1], t.chars[3]), TRUE)
       \/ TestCall(600, 603, 1, concatenate(t.m[1], t.hs[1], t.hs[2]), TRUE)
       \/ TestCall(603, 606, 1, concatenate(t.m[1], t.hs[4], t.hs[3]), TRUE)
       \/ TestCall(606, 608, 1, in_and_fin(t.m[1], t.hs[5]), FALSE)
       \/ TestNew(608, 609)
       \/ TestCall(609, 610, 2, expr_a(t.m[2], t.chars[1]), TRUE)
       \/ TestCall(610, 611, 2, expr_a(t.m[2], t.chars[2]), TRUE)
       \/ TestCall(611, 612, 2, expr_a(t.m[2], t.chars[3]), TRUE)
       \/ TestCall(612, 615, 2, concatenate(t.m[2], t.hs[7], t.hs[8]), TRUE)
       \/ TestCall(615, 618, 2, concatenate(t.m[2], t.hs[6], t.hs[9]), TRUE)
       \/ TestCall(618, 619, 2, in_and_fin(t.m[2], t.hs[10]), FALSE)

\* test_impl_fmt: RE (a + b)*b
test_impl_fmt ==
    /\ t.test = "test_impl_fmt"
    /\ \/ TestNew(728, 729)
       \/ TestCall(729, 730, 1, expr_a(t.m[1], t.chars[1]), TRUE)
       \/ TestCall(730, 731, 1, expr_a(t.m[1], t.chars[2]), TRUE)
       \/ TestCall(731, 732, 1, union(t.m[1], t.hs[1], t.hs[2]), TRUE)
       \/ TestCall(732, 733, 1, star(t.m[1], t.hs[3]), TRUE)
       \/ TestCall(733, 734, 1, expr_a(t.m[1], t.chars[3]), TRUE)
       \/ TestCall(734, 738, 1, concatenate(t.m[1], t.hs[4], t.hs[5]), TRUE)
       \/ TestCall(738, 739, 1, in_and_fin(t.m[1], t.hs[6]), FALSE)

\* match machine.op(..) { Ok(r) => .., Err(err) => .. } on machine t.m[k]:
\* the value is kept and the Ok arm entered, or the Err arm is.
TestMatch(line, ok, err, k, res) ==
    /\ t.pc = line
    /\ ~t.panicked
    /\ t' = IF res.r.tag = "Ok"
            THEN [t EXCEPT !.pc = ok, !.m[k] = res.m, !.hs = Append(@, res.r.val)]
            ELSE IF res.r.tag = "Err"
            THEN [t EXCEPT !.pc = err]
            ELSE [t EXCEPT !.panicked = TRUE]
    /\ UNCHANGED << machine, refs, consumed, finalized, call >>

\* Example 1 of the documentation of concatenate; the match ends at 221.
doc_concatenate ==
    /\ t.test = "doc_concatenate"
    /\ \/ TestNew(210, 211)
       \/ TestCall(211, 212, 1, expr_a(t.m[1], t.chars[1]), TRUE)
       \/ TestCall(212, 213, 1, expr_a(t.m[1], t.chars[2]), TRUE)
       \/ TestMatch(213, 216, 219, 1, concatenate(t.m[1], t.hs[1], t.hs[2]))
       \/ TestCall(216, 221, 1, in_and_fin(t.m[1], t.hs[3]), FALSE)

InitTest ==
    /\ machine = new
    /\ refs = << >>
    /\ consumed = {}
    /\ finalized = FALSE
    /\ call = [op |-> "new", r |-> Ok(<< >>)]
    /\ \E x, y, z \in Literals :
           \/ t = [NoTest EXCEPT !.test = "test_concatenate", !.pc = 596,
                                 !.chars = << x, y, z >>]
           \/ t = [NoTest EXCEPT !.test = "test_impl_fmt", !.pc = 728,
                                 !.chars = << x, y, z >>]
           \/ t = [NoTest EXCEPT !.test = "doc_concatenate", !.pc = 210,
                                 !.chars = << x, y >>]

NextTest == test_concatenate \/ test_impl_fmt \/ doc_concatenate

SpecTest == InitTest /\ [][NextTest]_vars

----------------------------------------------------------------------------
(* A driver that builds one regular expression on a fresh ANFA.  The       *)
(* expression is given in postfix form, one token for each call: "0", "1"  *)
(* and a character of Sigma for expr_0, expr_1 and expr_a, ".", "|" and    *)
(* "*" for concatenate, union and star of the handles last returned.  So   *)
(* each leaf is a primitive of its own and each handle is an operand once. *)
(* t.chars is the expression, t.pc the token to build next, t.hs the       *)
(* handles not yet consumed; every result is unwrapped.                    *)

\* The characters of the expressions.
Sigma == {"a", "b"}

Leaves == {"0", "1"} \cup Sigma

RECURSIVE Programs(_)
\* The expressions of exactly n tokens.
Programs(n) ==
    IF n = 1
    THEN {<< l >> : l \in Leaves}
    ELSE {p \o << "*" >> : p \in Programs(n - 1)}
         \cup UNION {{p \o q \o << op >> : p \in Programs(k),
                                           q \in Programs(n - 1 - k),
                                           op \in {".", "|"}} : k \in 1..(n - 2)}

Compiling == t.test = "regex" /\ ~t.panicked /\ t.pc <= Len(t.chars)

Token == t.chars[t.pc]

\* The operand handles: the last one returned, and the one before it.
Top == t.hs[Len(t.hs)]

Below == t.hs[Len(t.hs) - 1]

\* let r = machine.op(..).unwrap(); r takes the place of the `used` operands.
Compiled(res, used) ==
    /\ t' = IF res.r.tag = "Ok"
            THEN [t EXCEPT !.pc = @ + 1,
                           !.m[1] = res.m,
                           !.hs = Append(SubSeq(@, 1, Len(@) - used), res.r.val)]
            ELSE [t EXCEPT !.panicked = TRUE]
    /\ UNCHANGED << machine, refs, consumed, finalized, call >>

Compile_expr_0 == Compiling /\ Token = "0" /\ Compiled(expr_0(t.m[1]), 0)

Compile_expr_1 == Compiling /\ Token = "1" /\ Compiled(expr_1(t.m[1]), 0)

Compile_expr_a ==
    Compiling /\ Token \in Sigma /\ Compiled(expr_a(t.m[1], Token), 0)

Compile_concatenate ==
    Compiling /\ Token = "." /\ Compiled(concatenate(t.m[1], Below, Top), 2)

Compile_union ==
    Compiling /\ Token = "|" /\ Compiled(union(t.m[1], Below, Top), 2)

Compile_star == Compiling /\ Token = "*" /\ Compiled(star(t.m[1], Top), 1)

InitRegex ==
    /\ machine = new
    /\ refs = << >>
    /\ consumed = {}
    /\ finalized = FALSE
    /\ call = [op |-> "new", r |-> Ok(<< >>)]
    /\ \E n \in 1..MaxRegex : \E p \in Programs(n) :
           t = [NoTest EXCEPT !.test = "regex", !.pc = 1, !.chars = p,
                             !.m = << new >>]

NextRegex ==
    \/ Compile_expr_0
    \/ Compile_expr_1
    \/ Compile_expr_a
    \/ Compile_concatenate
    \/ Compile_union
    \/ Compile_star

SpecRegex == InitRegex /\ [][NextRegex]_vars

----------------------------------------------------------------------------
(* The downstream simulator: an epsilon-closure walk over a finalized      *)
(* table.  An empty slot is no transition, a slot without a symbol is an   *)
(* epsilon transition, a slot with a symbol consumes exactly that symbol.  *)

Slots(m, S) == {Row(m, p)[k] : p \in {q \in S : InTable(m, q)}, k \in 1..2}

\* The targets of the slots of S whose label is `label`.
Targets(m, S, label) ==
    {slot[1][2] : slot \in {x \in Slots(m, S) : x # None /\ x[1][1] = label}}

RECURSIVE EpsClosure(_, _)
EpsClosure(m, S) ==
    LET T == S \cup Targets(m, S, None)
    IN  IF T = S THEN S ELSE EpsClosure(m, T)

RECURSIVE Walk(_, _, _)
Walk(m, S, w) ==
    IF w = << >>
    THEN EpsClosure(m, S)
    ELSE Walk(m, Targets(m, EpsClosure(m, S), Some(Head(w))), Tail(w))

\* The walk from the finalized q0 reaches the finalized f on input w.
Accepts(m, w) ==
    /\ m.q0 # None
    /\ m.f # None
    /\ m.f[1] \in Walk(m, {m.q0[1]}, w)

Words == UNION {[1..n -> Literals] : n \in 0..MaxWord}

----------------------------------------------------------------------------
(* What the claims speak of.  A claim about what a call does is stated of  *)
(* every call the driver can make in a reachable state: of the machine and *)
(* the value the operation gives for the handles the driver holds.         *)

Rows(m) == 0..(Len(m.delta) - 1)

\* delta[a.f] has a non-empty slot.
HasTransitions(m, a) == Row(m, a.f) # NoTransitions

\* The call came back with an error and the automaton as it was before.
Rejected(res) == res.r.tag = "Err" /\ res.m = machine

\* Every row of m but those in `except` is the same in n.
SameRowsBut(m, n, except) ==
    \A q \in Rows(m) \ except : InTable(n, q) /\ Row(n, q) = Row(m, q)

Uses(i) == {u \in consumed : u.h = i}

Unconsumed(i) == Uses(i) = {}

LastCall(op, tag) == call.op = op /\ call.r.tag = tag

\* C1: a combinator called with an operand whose accept state has a
\* non-empty slot returns an error and leaves delta, q0 and f as they were;
\* for concatenate and union either operand alone is enough.
C1_PreconditionAtomic ==
    /\ \A i, j \in Held :
          (HasTransitions(machine, refs[i]) \/ HasTransitions(machine, refs[j]))
          => /\ Rejected(concatenate(machine, refs[i], refs[j]))
             /\ Rejected(union(machine, refs[i], refs[j]))
    /\ \A i \in Held :
          HasTransitions(machine, refs[i]) => Rejected(star(machine, refs[i]))

\* A concatenate or union has just been rejected on a finalized automaton
\* while the driver holds both a handle with transitions on its accept state
\* and one without.
C1_Witness ==
    /\ call.op \in {"concatenate", "union"}
    /\ call.r.tag = "Err"
    /\ finalized
    /\ \E i, j \in Held : /\ HasTransitions(machine, refs[i])
                          /\ ~HasTransitions(machine, refs[j])

\* C2: a successful concatenate(a, b) keeps the table length, makes
\* delta[a.f] = [epsilon -> b.q0, None], changes no other row and returns
\* (a.q0, b.f).
C2_Concatenate ==
    \A i, j \in Held :
        LET a   == refs[i]
            b   == refs[j]
            res == concatenate(machine, a, b)
        IN  res.r.tag = "Ok" =>
                /\ Len(res.m.delta) = Len(machine.delta)
                /\ Row(res.m, a.f) = << Eps(b.q0), None >>
                /\ SameRowsBut(machine, res.m, {a.f})
                /\ res.r.val = AutomataRef(a.q0, b.f)

\* A concatenate of two different fragments has succeeded in a table that
\* holds other rows.
C2_Witness ==
    /\ LastCall("concatenate", "Ok")
    /\ call.r.val.q0 # call.r.val.f
    /\ Len(machine.delta) >= 3

\* C3: a successful star(a) on a table of n rows appends rows n, n+1, n+2:
\* delta[n] = [epsilon -> n+1, None], delta[n+1] = [epsilon -> a.q0,
\* epsilon -> n+2], delta[n+2] = [None, None]; it overwrites delta[a.f] with
\* [epsilon -> n+1, None] and returns (n, n+2).
C3_Star ==
    \A i \in Held :
        LET a   == refs[i]
            n   == Len(machine.delta)
            res == star(machine, a)
        IN  res.r.tag = "Ok" =>
                /\ Len(res.m.delta) = n + 3
                /\ Row(res.m, n) = << Eps(n + 1), None >>
                /\ Row(res.m, n + 1) = << Eps(a.q0), Eps(n + 2) >>
                /\ Row(res.m, n + 2) = << None, None >>
                /\ Row(res.m, a.f) = << Eps(n + 1), None >>
                /\ res.r.val = AutomataRef(n, n + 2)

\* A star has succeeded on a fragment whose entry and accept differ.
C3_Witness ==
    /\ LastCall("star", "Ok")
    /\ LET branch == Row(machine, call.r.val.q0 + 1)
       IN  \E q \in Rows(machine) :
               /\ branch[1] = Eps(q)
               /\ Row(machine, q) # << Eps(call.r.val.q0 + 1), None >>

\* C4: a successful union(a, b) on a table of n rows appends rows n, n+1:
\* delta[n] = [epsilon -> a.q0, epsilon -> b.q0], delta[n+1] = [None, None];
\* it overwrites delta[a.f] and delta[b.f] with [epsilon -> n+1, None] and
\* returns (n, n+1).
C4_Union ==
    \A i, j \in Held :
        LET a   == refs[i]
            b   == refs[j]
            n   == Len(machine.delta)
            res == union(machine, a, b)
        IN  res.r.tag = "Ok" =>
                /\ Len(res.m.delta) = n + 2
                /\ Row(res.m, n) = << Eps(a.q0), Eps(b.q0) >>
                /\ Row(res.m, n + 1) = << None, None >>
                /\ Row(res.m, a.f) = << Eps(n + 1), None >>
                /\ Row(res.m, b.f) = << Eps(n + 1), None >>
                /\ res.r.val = AutomataRef(n, n + 1)

\* A union of two operands with different entry states has succeeded.
C4_Witness ==
    /\ LastCall("union", "Ok")
    /\ LET branch == Row(machine, call.r.val.q0)
       IN  branch[1] # branch[2]

DanglingAccept(i) == Row(machine, refs[i].f) = NoTransitions

\* C5 as stated: every handle returned and not yet passed as an operand has
\* an accept state with both slots empty, whatever handles the caller passes.
C5_DanglingAcceptAlways ==
    \A i \in Held : Unconsumed(i) => DanglingAccept(i)

\* A handle that was the right operand of a successful concatenate was also
\* an operand of another successful call, or the left operand of the same.
RightOperandReused ==
    \E u, v \in consumed : u.as = "concatenate.b" /\ v.h = u.h /\ v # u

\* C5 as amended: as long as no right operand of a successful concatenate
\* has been an operand a second time, every handle returned and not yet
\* passed as an operand has an accept state with both slots empty.
C5_DanglingAccept ==
    ~RightOperandReused =>
        \A i \in Held : Unconsumed(i) => DanglingAccept(i)

\* A concatenate has succeeded, no right operand was reused, and the driver
\* holds its unconsumed result.
C5_Witness ==
    /\ ~RightOperandReused
    /\ LastCall("concatenate", "Ok")
    /\ Unconsumed(Len(refs))
    /\ \E u \in consumed : u.as = "concatenate.b" /\ u.by = Len(refs)

WasOperand(i) == Uses(i) # {}

\* refs[i] was an operand whose accept state the call rewired: the left
\* operand of concatenate, the operand of star, either operand of union.
WasRewired(i) == \E u \in Uses(i) : u.as # "concatenate.b"

Fails(res) == res.r.tag = "Err"

\* A combinator call that receives a handle satisfying P returns an error.
ReuseRejected(P(_)) ==
    /\ \A i, j \in Held :
          (P(i) \/ P(j)) => /\ Fails(concatenate(machine, refs[i], refs[j]))
                            /\ Fails(union(machine, refs[i], refs[j]))
    /\ \A i \in Held : P(i) => Fails(star(machine, refs[i]))

\* C6 as stated: a handle that was an operand, in either position, of a
\* successful combinator call is rejected by every later combinator call.
C6_ReuseRejectedAlways == ReuseRejected(WasOperand)

\* C6 as amended: a handle that was the left operand of a successful
\* concatenate, the operand of a successful star or an operand of a
\* successful union is rejected by every later combinator call that
\* receives it.
C6_ReuseRejected == ReuseRejected(WasRewired)

\* A combinator has been rejected, and every handle the driver holds with
\* transitions on its accept state is one that was rewired.
C6_Witness ==
    /\ call.op \in Combinators
    /\ call.r.tag = "Err"
    /\ \E i \in Held : WasRewired(i)
    /\ \A i \in Held : HasTransitions(machine, refs[i]) => WasRewired(i)

\* C10: a successful call removes and reorders no row, and changes an
\* existing row only if it is the accept state of an operand of the call,
\* and then to the value that combinator specifies; the builders change no
\* existing row.
C10_Frame ==
    /\ \A res \in {expr_0(machine), expr_1(machine)}
                  \cup {expr_a(machine, c) : c \in Alphabet} :
          /\ res.r.tag = "Ok"
          /\ SameRowsBut(machine, res.m, {})
    /\ \A i, j \in Held :
          LET res == concatenate(machine, refs[i], refs[j])
          IN  res.r.tag = "Ok" =>
                  /\ SameRowsBut(machine, res.m, {refs[i].f})
                  /\ Row(res.m, refs[i].f) = << Eps(refs[j].q0), None >>
    /\ \A i \in Held :
          LET res == star(machine, refs[i])
          IN  res.r.tag = "Ok" =>
                  /\ SameRowsBut(machine, res.m, {refs[i].f})
                  /\ Row(res.m, refs[i].f) =
                         << Eps(Len(machine.delta) + 1), None >>
    /\ \A i, j \in Held :
          LET res == union(machine, refs[i], refs[j])
          IN  res.r.tag = "Ok" =>
                  /\ SameRowsBut(machine, res.m, {refs[i].f, refs[j].f})
                  /\ \A q \in {refs[i].f, refs[j].f} :
                        Row(res.m, q) = << Eps(Len(machine.delta) + 1), None >>

\* A successful combinator has rewired one row of a table in which a
\* literal's entry row stands as expr_a pushed it.
C10_Witness ==
    /\ call.op \in Combinators
    /\ call.r.tag = "Ok"
    /\ \E p, q \in Rows(machine), c \in Alphabet :
          /\ Row(machine, p) = << Sym(c, p + 1), None >>
          /\ Row(machine, q)[1] # None
          /\ Row(machine, q)[1][1][1] = None

\* C7: for three literals built in the same order on two fresh automata,
\* (x . y) . z and x . (y . z), each followed by in_and_fin, both succeed at
\* every step and leave equal automata: the same delta, q0 and f.
C7_ConcatenateAssociative ==
    t.test = "test_concatenate" =>
        /\ ~t.panicked
        /\ t.pc = 619 => t.m[1] = t.m[2]

\* Both automata are finalized, built from three different literals.
C7_Witness ==
    /\ t.test = "test_concatenate"
    /\ t.pc = 619
    /\ Cardinality({t.chars[k] : k \in 1..3}) = 3
    /\ Len(t.m[1].delta) = 6
    /\ t.m[2].q0 = Some(0) /\ t.m[2].f = Some(5)

\* w is in the language of (x|y)*z.
InStarThenLiteral(w, x, y, z) ==
    /\ Len(w) >= 1
    /\ w[Len(w)] = z
    /\ \A k \in 1..(Len(w) - 1) : w[k] \in {x, y}

\* C8: union(expr_a(x), expr_a(y)), star of it, concatenate with a fresh
\* expr_a(z), in_and_fin: every step succeeds, and the walk accepts exactly
\* the words of (x|y)*z; for (a|b)*b it accepts "b", "ab", "bab", "aab" and
\* rejects "" and "a".
C8_EndToEnd ==
    t.test = "test_impl_fmt" =>
        /\ ~t.panicked
        /\ t.pc = 739 =>
              /\ \A w \in Words :
                    Accepts(t.m[1], w) <=>
                        InStarThenLiteral(w, t.chars[1], t.chars[2], t.chars[3])
              /\ t.chars = << "a", "b", "b" >> =>
                    /\ Accepts(t.m[1], << "b" >>)
                    /\ Accepts(t.m[1], << "a", "b" >>)
                    /\ Accepts(t.m[1], << "b", "a", "b" >>)
                    /\ Accepts(t.m[1], << "a", "a", "b" >>)
                    /\ ~Accepts(t.m[1], << >>)
                    /\ ~Accepts(t.m[1], << "a" >>)

\* (a|b)*b is built and finalized: eleven states, entered at 6, left at 10.
C8_Witness ==
    /\ t.test = "test_impl_fmt"
    /\ t.pc = 739
    /\ t.chars = << "a", "b", "b" >>
    /\ Len(t.m[1].delta) = 11
    /\ t.m[1].q0 = Some(6)
    /\ t.m[1].f = Some(10)

\* C9: concatenate, star and union return a handle or an error for any
\* operand handles whatsoever; no call aborts on a table index out of bounds.
C9_NeverCrash == call.op \in Combinators => call.r.tag \in {"Ok", "Err"}

\* The calls the driver can make in this state, each with the machine it
\* leaves and the value it returns: P holds of every such call.
EachBuilderCall(P(_)) ==
    /\ P(expr_0(machine))
    /\ P(expr_1(machine))
    /\ \A c \in Alphabet : P(expr_a(machine, c))

EachStarCall(P(_)) == \A i \in Held : P(star(machine, refs[i]))

EachUnionCall(P(_)) == \A i, j \in Held : P(union(machine, refs[i], refs[j]))

EachConcatenateCall(P(_)) ==
    \A i, j \in Held : P(concatenate(machine, refs[i], refs[j]))

EachCombinatorCall(P(_)) ==
    EachConcatenateCall(P) /\ EachStarCall(P) /\ EachUnionCall(P)

EachInAndFinCall(P(_)) == \A i \in Held : P(in_and_fin(machine, refs[i]))

\* C11 as stated: the q0 and the f of the handles returned by successful
\* calls are strictly increasing from each call to the next.
C11_StrictlyIncreasingAlways ==
    \A i \in Held \ {Len(refs)} :
        /\ refs[i].q0 < refs[i + 1].q0
        /\ refs[i].f < refs[i + 1].f

\* Every state id of the handle is greater than every id returned before.
AboveEveryReturnedId(a) ==
    \A i \in Held : /\ refs[i].q0 < a.q0 /\ refs[i].q0 < a.f
                    /\ refs[i].f < a.q0 /\ refs[i].f < a.f

ReturnsNewIds(res) == res.r.tag = "Ok" => AboveEveryReturnedId(res.r.val)

\* C11 as amended: the q0 and f returned by a successful expr_0, expr_1,
\* expr_a, star or union are greater than every state id returned by the
\* calls before it; a successful concatenate returns its left operand's q0
\* and its right operand's f, ids returned before.
C11_StrictlyIncreasing ==
    /\ EachBuilderCall(ReturnsNewIds)
    /\ EachStarCall(ReturnsNewIds)
    /\ EachUnionCall(ReturnsNewIds)
    /\ \A i, j \in Held :
          LET res == concatenate(machine, refs[i], refs[j])
          IN  res.r.tag = "Ok" =>
                  res.r.val.q0 = refs[i].q0 /\ res.r.val.f = refs[j].f

\* A star or union has succeeded after a concatenate had returned old ids.
C11_Witness ==
    /\ call.op \in {"star", "union"}
    /\ call.r.tag = "Ok"
    /\ \E u \in consumed :
          /\ u.as = "concatenate.a"
          /\ u.by < Len(refs)
          /\ refs[u.by].q0 = refs[u.h].q0
          /\ refs[u.by].f < call.r.val.q0

\* The handles a caller can pass: those this automaton returned and those
\* it did not.
AnyRefs == {refs[i] : i \in Held} \cup ForeignRefs

\* C12: in_and_fin(handle) returns Ok, sets q0 to handle.q0 and f to
\* handle.f and leaves delta as it was, for any handle and any state of the
\* automaton, finalized before or not.
C12_InAndFin ==
    \A a \in AnyRefs :
        LET res == in_and_fin(machine, a)
        IN  /\ res.r = Ok(<< >>)
            /\ res.m.q0 = Some(a.q0)
            /\ res.m.f = Some(a.f)
            /\ res.m.delta = machine.delta

\* in_and_fin has returned for a handle whose q0 and f differ, on a table
\* that holds more than that fragment.
C12_Witness ==
    /\ LastCall("in_and_fin", "Ok")
    /\ Len(machine.delta) >= 3
    /\ \E i \in Held : /\ refs[i].q0 # refs[i].f
                       /\ machine.q0 = Some(refs[i].q0)
                       /\ machine.f = Some(refs[i].f)

KeepsEntryAndAccept(res) == res.m.q0 = machine.q0 /\ res.m.f = machine.f

\* C13 as stated: once in_and_fin has run, no call changes q0 and f, be it
\* a builder, a combinator or another in_and_fin.
C13_FixedAfterInAndFinAlways ==
    finalized =>
        /\ EachBuilderCall(KeepsEntryAndAccept)
        /\ EachCombinatorCall(KeepsEntryAndAccept)
        /\ EachInAndFinCall(KeepsEntryAndAccept)

\* C13 as amended: once in_and_fin has run, no builder and no combinator
\* call, successful or failing, changes q0 and f; only another in_and_fin
\* does, which sets them to the q0 and f of its handle.
C13_FixedAfterInAndFin ==
    /\ finalized =>
          /\ EachBuilderCall(KeepsEntryAndAccept)
          /\ EachCombinatorCall(KeepsEntryAndAccept)
    /\ \A i \in Held :
          LET res == in_and_fin(machine, refs[i])
          IN  res.m.q0 = Some(refs[i].q0) /\ res.m.f = Some(refs[i].f)

\* A combinator has succeeded on a finalized automaton.
C13_Witness ==
    /\ finalized
    /\ call.op \in Combinators
    /\ call.r.tag = "Ok"
    /\ machine.q0 # None
    /\ machine.f # None

\* C14: expr_a(c) on a table of n rows returns Ok with (q0 = n, f = n+1),
\* q0 # f, and appends exactly two rows: delta[n] = [c -> n+1, None] and
\* delta[n+1] = [None, None].
C14_ExprA ==
    \A c \in Literals :
        LET n   == Len(machine.delta)
            res == expr_a(machine, c)
        IN  /\ res.r = Ok(AutomataRef(n, n + 1))
            /\ res.r.val.q0 # res.r.val.f
            /\ Len(res.m.delta) = n + 2
            /\ Row(res.m, n) = << Sym(c, n + 1), None >>
            /\ Row(res.m, n + 1) = << None, None >>

\* expr_a has returned on a table that held other rows.
C14_Witness ==
    /\ LastCall("expr_a", "Ok")
    /\ call.r.val.q0 >= 1
    /\ \E c \in Alphabet :
          Row(machine, call.r.val.q0) = << Sym(c, call.r.val.f), None >>

\* The states the slots of the states of S lead to, along any label.
Successors(m, S) ==
    {slot[1][2] : slot \in {x \in {Row(m, p)[k] : p \in S \cap Rows(m),
                                                  k \in 1..2} : x # None}}

RECURSIVE ReachableFrom(_, _)
\* The states some path from a state of S leads to.
ReachableFrom(m, S) ==
    LET T == S \cup Successors(m, S)
    IN  IF T = S THEN S ELSE ReachableFrom(m, T)

\* C15: expr_0 on a table of n rows returns Ok with (q0 = n, f = n+1),
\* q0 # f, appends exactly two rows, both [None, None], and right after the
\* call no path leads from q0 to f.
C15_Expr0 ==
    LET n   == Len(machine.delta)
        res == expr_0(machine)
    IN  /\ res.r = Ok(AutomataRef(n, n + 1))
        /\ res.r.val.q0 # res.r.val.f
        /\ Len(res.m.delta) = n + 2
        /\ Row(res.m, n) = << None, None >>
        /\ Row(res.m, n + 1) = << None, None >>
        /\ res.r.val.f \notin ReachableFrom(res.m, {res.r.val.q0})

\* expr_0 has returned on a table that held other rows, some with
\* transitions, and its f is not reachable from its q0.
C15_Witness ==
    /\ LastCall("expr_0", "Ok")
    /\ call.r.val.q0 >= 1
    /\ \E q \in Rows(machine) : Row(machine, q) # NoTransitions
    /\ call.r.val.f \notin ReachableFrom(machine, {call.r.val.q0})

\* C16: expr_1 on a table of n rows returns Ok with q0 = f = n and appends
\* exactly one row, [None, None].
C16_Expr1 ==
    LET n   == Len(machine.delta)
        res == expr_1(machine)
    IN  /\ res.r = Ok(AutomataRef(n, n))
        /\ res.r.val.q0 = res.r.val.f
        /\ Len(res.m.delta) = n + 1
        /\ Row(res.m, n) = << None, None >>

\* expr_1 has returned on a table that held other rows.
C16_Witness ==
    /\ LastCall("expr_1", "Ok")
    /\ call.r.val.q0 >= 1
    /\ call.r.val.f = Len(machine.delta) - 1
    /\ Row(machine, call.r.val.f) = NoTransitions

\* C17: a new ANFA has an empty table and q0 and f unset, and q0 and f are
\* unset in every state reached by builder and combinator calls, successful
\* or failing, as long as in_and_fin has not been called.
C17_UnsetUntilInAndFin ==
    /\ new.delta = << >>
    /\ new.q0 = None
    /\ new.f = None
    /\ ~finalized => machine.q0 = None /\ machine.f = None

\* Builders have run, a combinator has succeeded and another has just
\* failed, and in_and_fin has not been called.
C17_Witness ==
    /\ ~finalized
    /\ call.op \in Combinators
    /\ call.r.tag = "Err"
    /\ consumed # {}
    /\ machine.q0 = None

Grows(res, k) == Len(res.m.delta) = Len(machine.delta) + k

\* The first state a call appended has the table length before the call as
\* its id.
AppendsAt(res) == res.r.val.q0 = Len(machine.delta)

BuilderGrowth(res, k) == Grows(res, k) /\ AppendsAt(res)

ConcatenateGrowth(res) == Grows(res, 0)

StarGrowth(res) ==
    IF res.r.tag = "Ok" THEN Grows(res, 3) /\ AppendsAt(res) ELSE Grows(res, 0)

UnionGrowth(res) ==
    IF res.r.tag = "Ok" THEN Grows(res, 2) /\ AppendsAt(res) ELSE Grows(res, 0)

InAndFinGrowth(res) == Grows(res, 0)

\* C18: a state is appended at the id equal to the table length of that
\* moment; the table length never decreases; it grows by 2, 1, 2, 0, 3, 2 on
\* a successful expr_0, expr_1, expr_a, concatenate, star, union, and by 0
\* on a failing combinator and on in_and_fin.
C18_Growth ==
    /\ BuilderGrowth(expr_0(machine), 2)
    /\ BuilderGrowth(expr_1(machine), 1)
    /\ \A c \in Alphabet : BuilderGrowth(expr_a(machine, c), 2)
    /\ EachConcatenateCall(ConcatenateGrowth)
    /\ EachStarCall(StarGrowth)
    /\ EachUnionCall(UnionGrowth)
    /\ EachInAndFinCall(InAndFinGrowth)

\* A star has appended its three states after a concatenate that appended
\* none, and the driver holds a handle that a combinator now rejects.
C18_Witness ==
    /\ LastCall("star", "Ok")
    /\ call.r.val.f = Len(machine.delta) - 1
    /\ \E u \in consumed : u.as = "concatenate.b"
    /\ \E i \in Held : Fails(star(machine, refs[i]))

\* The call changes a row only from [None, None] to a row with a transition,
\* and no row at all when it fails.
WritesEmptyRowsOnly(res) ==
    IF res.r.tag # "Ok"
    THEN res.m.delta = machine.delta
    ELSE \A q \in Rows(machine) :
             Row(res.m, q) # Row(machine, q) =>
                 /\ Row(machine, q) = NoTransitions
                 /\ Row(res.m, q) # NoTransitions

WritesNoRow(res) == SameRowsBut(machine, res.m, {})

\* C19: a call overwrites an existing row only while both of its slots are
\* empty and leaves it with a transition, so each row is overwritten in at
\* most one call after its creation, and a row with a non-empty slot is not
\* modified again; the builders and in_and_fin overwrite no row.
C19_WriteOnce ==
    /\ EachCombinatorCall(WritesEmptyRowsOnly)
    /\ EachBuilderCall(WritesNoRow)
    /\ EachInAndFinCall(WritesNoRow)

\* A combinator has been rejected for a handle whose accept row an earlier
\* call overwrote, and that row stands as that call left it.
C19_Witness ==
    /\ call.op \in Combinators
    /\ call.r.tag = "Err"
    /\ \E i \in Held :
          /\ WasRewired(i)
          /\ Row(machine, refs[i].f)[1] # None
          /\ Fails(star(machine, refs[i]))

\* The table of the worked example for the literals x and y.
ExampleTable(x, y) ==
    << << Sym(x, 1), None >>,
       << Eps(2), None >>,
       << Sym(y, 3), None >>,
       << None, None >> >>

ExampleDone == t.test = "doc_concatenate" /\ t.pc = 221

Succeeds(res) == res.r.tag = "Ok"

\* C21: when every handle is an operand of at most one combinator call, in
\* one position, and only handles of this automaton are used, no
\* concatenate, star or union returns an error, neither the last call made
\* nor any call the discipline allows next, and the handles not yet
\* consumed have pairwise distinct accept states.
C21_LinearUse ==
    /\ call.op \in Combinators => call.r.tag = "Ok"
    /\ \A i \in Held : Unconsumed(i) => Succeeds(star(machine, refs[i]))
    /\ \A i, j \in Held :
          (i # j /\ Unconsumed(i) /\ Unconsumed(j)) =>
              /\ Succeeds(concatenate(machine, refs[i], refs[j]))
              /\ Succeeds(union(machine, refs[i], refs[j]))
              /\ refs[i].f # refs[j].f

\* A combinator has succeeded on the result of an earlier combinator, each
\* handle was an operand at most once, and the result is not yet consumed.
C21_Witness ==
    /\ call.op \in Combinators
    /\ call.r.tag = "Ok"
    /\ \E u, v \in consumed : u.h = v.by /\ u.by = Len(refs)
    /\ \A u, v \in consumed : u.h = v.h => u = v
    /\ Unconsumed(Len(refs))

\* The language of an expression, cut at the longest input: sets of words,
\* computed from the expression alone.
Product(A, B) ==
    {w \in {u \o v : u \in A, v \in B} : Len(w) <= MaxWord}

RECURSIVE Closure(_, _)
Closure(S, A) ==
    LET T == S \cup Product(S, A)
    IN  IF T = S THEN S ELSE Closure(T, A)

Kleene(A) == Closure({<< >>}, A)

RECURSIVE Languages(_, _, _)
\* The languages of the operands left after tokens k.. of p, st being those
\* left before token k.
Languages(p, k, st) ==
    IF k > Len(p)
    THEN st
    ELSE LET n    == Len(st)
             tok  == p[k]
             next == CASE tok = "0" -> Append(st, {})
                       [] tok = "1" -> Append(st, {<< >>})
                       [] tok = "." -> Append(SubSeq(st, 1, n - 2),
                                              Product(st[n - 1], st[n]))
                       [] tok = "|" -> Append(SubSeq(st, 1, n - 2),
                                              st[n - 1] \cup st[n])
                       [] tok = "*" -> Append(SubSeq(st, 1, n - 1),
                                              Kleene(st[n]))
                       [] OTHER -> Append(st, {<< tok >>})
         IN  Languages(p, k + 1, next)

LanguageOf(p) == Languages(p, 1, << >>)[1]

\* The walk from the handle's q0 reaches the handle's f on input w.
WalkAccepts(m, a, w) == a.f \in Walk(m, {a.q0}, w)

\* The expression is built; its handle is the one left.
Built == t.test = "regex" /\ ~t.panicked /\ t.pc = Len(t.chars) + 1

Realized == {w \in Words : WalkAccepts(t.m[1], t.hs[1], w)}

\* p is the concatenation of some fragment and an expr_0 fragment.
ConcatenatedWithNothing(p) ==
    /\ Len(p) >= 3
    /\ p[Len(p)] = "."
    /\ \/ p[Len(p) - 1] = "0"
       \/ p[1] = "0" /\ SubSeq(p, 2, Len(p) - 1) \in Programs(Len(p) - 2)

\* C22: for every expression over expr_0, expr_1, expr_a, concatenate,
\* union and star, built with a fresh primitive for each leaf and each
\* handle consumed once, every call succeeds and the words on which the
\* walk leads from the result's q0 to its f are those of the language of
\* the expression; star(a) accepts the empty word and the repetitions of
\* a's language, and a fragment concatenated with expr_0 accepts nothing.
C22_RealizesLanguage ==
    t.test = "regex" =>
        /\ ~t.panicked
        /\ Built =>
              /\ Len(t.hs) = 1
              /\ Realized = LanguageOf(t.chars)
              /\ t.chars[Len(t.chars)] = "*" =>
                    /\ << >> \in Realized
                    /\ Realized =
                           Kleene(LanguageOf(SubSeq(t.chars, 1, Len(t.chars) - 1)))
              /\ ConcatenatedWithNothing(t.chars) => Realized = {}

\* (a|b)* is built, and the walk accepts "aba".
C22_Witness ==
    /\ Built
    /\ t.chars = << "a", "b", "|", "*" >>
    /\ << "a", "b", "a" >> \in Realized
    /\ << "a", "c" >> \notin Realized

\* The state ids the non-empty slots of the table lead to.
AllTargets(m) ==
    {Row(m, q)[k][1][2] : q \in {p \in Rows(m) : Row(m, p)[1] # None},
                          k \in {1}}
    \cup {Row(m, q)[k][1][2] : q \in {p \in Rows(m) : Row(m, p)[2] # None},
                               k \in {2}}

\* C23: when every operand handle was returned by an earlier call on the
\* same automaton, every non-empty slot of every row leads to a state id
\* smaller than the table length, the q0 and f of every returned handle
\* are smaller than the table length, and so are the automaton's q0 and f
\* after in_and_fin.
C23_NoDanglingTargets ==
    /\ \A q \in AllTargets(machine) : InTable(machine, q)
    /\ \A i \in Held : InTable(machine, refs[i].q0) /\ InTable(machine, refs[i].f)
    /\ finalized => /\ machine.q0 # None /\ InTable(machine, machine.q0[1])
                    /\ machine.f # None /\ InTable(machine, machine.f[1])

\* in_and_fin has returned for the result of a star, whose final state is
\* the last row of the table and the target of the exit of its branch state.
C23_Witness ==
    /\ LastCall("in_and_fin", "Ok")
    /\ machine.f = Some(Len(machine.delta) - 1)
    /\ \E q \in Rows(machine) : Row(machine, q)[2] = Eps(Len(machine.delta) - 1)

====
